---- MODULE Spec2Model ----
(***************************************************************************)
(* Tiny-Debugger (src/src/main.rs): a ptrace based debugger.  main() forks *)
(* a child that disables ASLR, requests tracing and execs the program; the *)
(* parent waits for the child and then reads commands (break, continue,    *)
(* exit/quit) from the terminal.  Breakpoints patch the byte 0xcc into the *)
(* tracee's memory with word sized PTRACE_PEEKDATA / PTRACE_POKEDATA.      *)
(*                                                                         *)
(* A machine word (i64) is modelled as its 8 bytes, least significant      *)
(* first, and the bit operations of the source are computed bit by bit.    *)
(* An input line is represented by the token list command.split       *)
(* yields for it; an address token is a sequence of characters.            *)
(***************************************************************************)
EXTENDS Integers, Sequences, FiniteSets, TLC

VARIABLES
    dbg,          \* where the debugger process is: "main", "run_wait", "prompt",
                  \* "cont_wait", "exited" (exit or return from main), "panic"
    exitStatus,   \* exit status of the debugger process, -1 while it runs
    tstate,       \* the child: "none", "forked", "aslr_off", "traceme",
                  \* "stopped", "running", "zombie", "reaped"
    rip,          \* the tracee's instruction pointer
    mem,          \* the tracee's memory: mapped address -> byte
    breakpoints,  \* Debugger.breakpoints: address -> Breakpoint
    report,       \* what handle_breakpoint printed about the lookup
    err,          \* the diagnostic of the last command ("none" if none)
    killRes,      \* result of kill(tracee_pid, SIGINT) in quit
    ptraced,      \* whether the debugger has issued a ptrace request
                  \* (PTRACE_PEEKDATA, PTRACE_POKEDATA or PTRACE_CONT)
    initStatus,   \* what the waitpid of run() returned: "none" before it,
                  \* "stopped" (the trace-stop of exec) or "exited"
    childLog,     \* the calls the child made, in order, each with its result
    \* history, written but never read by the program
    mem0,         \* the tracee's memory as exec left it
    executed,     \* addresses whose resident instruction the tracee executed
    resumedAt,    \* rip when the tracee was last resumed
    nBreak,       \* address -> number of break commands that returned for it
    last          \* the last line read, classified

vars == <<dbg, exitStatus, tstate, rip, mem, breakpoints, report, err, killRes,
          ptraced, initStatus, childLog,
          mem0, executed, resumedAt, nBreak, last>>

----------------------------------------------------------------------------
(* Bounds of the model *)

\* longest digit body of an address token
MaxDigits == 2
\* break commands accepted per address
MaxBreaks == 3
\* one byte instructions the program runs before it exits
CodeLen == 3

----------------------------------------------------------------------------
(* Bytes and 64-bit words *)

INT3 == 204

WordBytes == 8

Byte == 0..255

RECURSIVE BitAnd(_, _, _)
BitAnd(a, b, n) ==
    IF n = 0 THEN 0
    ELSE (IF a % 2 = 1 /\ b % 2 = 1 THEN 1 ELSE 0)
         + 2 * BitAnd(a \div 2, b \div 2, n - 1)

RECURSIVE BitOr(_, _, _)
BitOr(a, b, n) ==
    IF n = 0 THEN 0
    ELSE (IF a % 2 = 1 \/ b % 2 = 1 THEN 1 ELSE 0)
         + 2 * BitOr(a \div 2, b \div 2, n - 1)

\* a non-negative i64 literal below 256 (0xff, INT3) or a u8 cast `as i64`
\* a byte widened as a signed one (u8 as i8 as i64)
WordOfByteSignExtended(b) ==
    [i \in 1..WordBytes |-> IF i = 1 THEN b ELSE IF b >= 128 THEN 255 ELSE 0]

\* a u8 or a small literal as i64: zero-extended
WordOfByte(b) == [i \in 1..WordBytes |-> IF i = 1 THEN b ELSE 0]

WordAnd(w, v) == [i \in 1..WordBytes |-> BitAnd(w[i], v[i], 8)]

WordOr(w, v) == [i \in 1..WordBytes |-> BitOr(w[i], v[i], 8)]

WordNot(w) == [i \in 1..WordBytes |-> 255 - w[i]]

\* (word & 0xff) as u8
LowByte(w) == WordAnd(w, WordOfByte(255))[1]

----------------------------------------------------------------------------
(* Address tokens: strip_prefix("0x") and u64::from_str_radix(addr, 16) *)

\* char::to_digit(16); -1 stands for None
HexDigit(c) ==
    CASE c = "0" -> 0  [] c = "1" -> 1  [] c = "2" -> 2  [] c = "3" -> 3
      [] c = "4" -> 4  [] c = "5" -> 5  [] c = "6" -> 6  [] c = "7" -> 7
      [] c = "8" -> 8  [] c = "9" -> 9
      [] c = "a" -> 10 [] c = "b" -> 11 [] c = "c" -> 12
      [] c = "d" -> 13 [] c = "e" -> 14 [] c = "f" -> 15
      [] c = "A" -> 10 [] c = "B" -> 11 [] c = "C" -> 12
      [] c = "D" -> 13 [] c = "E" -> 14 [] c = "F" -> 15
      [] OTHER -> -1

\* addr.strip_prefix("0x"): Some(rest) or None
HasPrefix0x(tok) == Len(tok) >= 2 /\ tok[1] = "0" /\ tok[2] = "x"

\* a strip that takes the prefix off only when it is written 0X
StripPrefixUpperOnly(tok) ==
    IF Len(tok) >= 2 /\ tok[1] = "0" /\ tok[2] = "X"
    THEN SubSeq(tok, 3, Len(tok)) ELSE tok

StripPrefix0x(tok) == IF HasPrefix0x(tok) THEN SubSeq(tok, 3, Len(tok)) ELSE tok

\* the digit loop of from_str_radix: acc * 16 + digit, an invalid digit is an
\* error.  The tokens of the model are short, so acc stays far below 2^64 and
\* the overflow error of the checked arithmetic cannot arise.
RECURSIVE RadixDigits(_, _)
RadixDigits(s, acc) ==
    IF s = << >> THEN [ok |-> TRUE, val |-> acc]
    ELSE IF HexDigit(Head(s)) < 0 THEN [ok |-> FALSE, val |-> 0]
    ELSE RadixDigits(Tail(s), acc * 16 + HexDigit(Head(s)))

\* u64::from_str_radix(s, 16): the empty string is an error, one leading "+"
\* is accepted when digits follow it, "-" is not a digit of an unsigned type
FromStrRadix16(s) ==
    IF s = << >> THEN [ok |-> FALSE, val |-> 0]
    ELSE IF Head(s) = "+"
         THEN IF Len(s) = 1 THEN [ok |-> FALSE, val |-> 0]
              ELSE RadixDigits(Tail(s), 0)
    ELSE RadixDigits(s, 0)

\* the table key handle_breakpoint computes from the token
ParseAddr(tok) == FromStrRadix16(StripPrefix0x(tok))

----------------------------------------------------------------------------
(* The tracee's address space, as PTRACE_PEEKDATA and PTRACE_POKEDATA see it *)

\* the text of the program: private, so ptrace may write it
TextBase == ParseAddr(<<"1", "0">>).val

\* the text mapping ends one byte after the word at TextBase, so the word at
\* TextBase + 1 is the last that is mapped whole
TextSize == WordBytes + 1

TextAddrs == TextBase..(TextBase + TextSize - 1)

\* a read-only shared mapping: ptrace can read it and cannot write it
SharedBase == ParseAddr(<<"2", "0">>).val

SharedAddrs == SharedBase..(SharedBase + WordBytes - 1)

MappedAddrs == TextAddrs \cup SharedAddrs

\* the program: CodeLen one byte instructions from the entry point, then exit
Entry == TextBase

CodeAddrs == Entry..(Entry + CodeLen - 1)

\* the images exec may load: the first two instruction bytes vary (0x55 push
\* rbp, 0x48, 0x00, and a byte that already is 0xcc); the other bytes are
\* fixed and mix values below and above 0x80
FirstBytes == {85, 204, 0}

SecondBytes == {72, 204}

RestByte(a) ==
    LET k == (a - TextBase) % 8
    IN  CASE k = 0 -> 127 [] k = 1 -> 128 [] k = 2 -> 137 [] k = 3 -> 229
          [] k = 4 -> 0   [] k = 5 -> 255 [] k = 6 -> 204 [] OTHER -> 195

Images ==
    { [a \in MappedAddrs |->
          IF a = TextBase THEN b0
          ELSE IF a = TextBase + 1 THEN b1
          ELSE RestByte(a)] : b0 \in FirstBytes, b1 \in SecondBytes }

\* before exec the child has no image of the program
NoImage == [a \in {} |-> 0]

WordRange(addr) == addr..(addr + WordBytes - 1)

\* ptrace::read succeeds on a stopped tracee when the whole word is mapped
PeekOk(ts, addr) == ts = "stopped" /\ WordRange(addr) \subseteq MappedAddrs

\* ptrace::write succeeds when the word also lies in a private mapping
PokeOk(ts, addr) == PeekOk(ts, addr) /\ WordRange(addr) \subseteq TextAddrs

\* the word PTRACE_PEEKDATA returns: 8 bytes, little endian
\* a read that fetches the one byte at addr and zero-fills the word
ReadWordLowByteOnly(m, addr) ==
    [i \in 1..WordBytes |-> IF i = 1 THEN m[addr] ELSE 0]

ReadWord(m, addr) == [i \in 1..WordBytes |-> m[addr + i - 1]]

\* the memory after PTRACE_POKEDATA of word w at addr
WriteWord(m, addr, w) ==
    [a \in DOMAIN m |-> IF a \in WordRange(addr) THEN w[a - addr + 1] ELSE m[a]]

----------------------------------------------------------------------------
(* struct Breakpoint.  An operation returns the breakpoint and the memory  *)
(* it leaves, and which ptrace call failed: "none", "peek" (the expect on  *)
(* ptrace::read panicked) or "poke" (the expect on ptrace::write panicked) *)

\* the trap byte or-ed into the word without clearing its low byte
TrapWordNoMask(word) == WordOr(word, WordOfByte(INT3))

\* (word & !0xff) | INT3
TrapWord(word) == WordOr(WordAnd(word, WordNot(WordOfByte(255))), WordOfByte(INT3))

\* the saved byte or-ed into the word without clearing its low byte
RestoredWordNoMask(word, saved) == WordOr(word, WordOfByte(saved))

\* (word & !0xff) | self.saved_byte as i64
RestoredWord(word, saved) ==
    WordOr(WordAnd(word, WordNot(WordOfByte(255))), WordOfByte(saved))

\* an enable that reads and records the byte and never writes the trap
EnableWithoutPoke(bp, m, ts) ==
    IF ~PeekOk(ts, bp.addr) THEN [fault |-> "peek", bp |-> bp, mem |-> m]
    ELSE [fault |-> "none",
          bp    |-> [bp EXCEPT !.saved_byte = LowByte(ReadWord(m, bp.addr)),
                               !.enabled = TRUE],
          mem   |-> m]

\* an enable that takes saved_byte from the word it has just written
EnableCapturesAfterWrite(bp, m, ts) ==
    IF ~PeekOk(ts, bp.addr) THEN [fault |-> "peek", bp |-> bp, mem |-> m]
    ELSE LET word == ReadWord(m, bp.addr)
         IN  IF ~PokeOk(ts, bp.addr)
             THEN [fault |-> "poke", bp |-> bp, mem |-> m]
             ELSE [fault |-> "none",
                   bp    |-> [bp EXCEPT !.saved_byte = LowByte(TrapWord(word)),
                                        !.enabled = TRUE],
                   mem   |-> WriteWord(m, bp.addr, TrapWord(word))]

Enable(bp, m, ts) ==
    IF ~PeekOk(ts, bp.addr) THEN [fault |-> "peek", bp |-> bp, mem |-> m]
    ELSE LET word  == ReadWord(m, bp.addr)
             saved == [bp EXCEPT !.saved_byte = LowByte(word)]
         IN  IF ~PokeOk(ts, bp.addr)
             THEN [fault |-> "poke", bp |-> saved, mem |-> m]
             ELSE [fault |-> "none",
                   bp    |-> [saved EXCEPT !.enabled = TRUE],
                   mem   |-> WriteWord(m, bp.addr, TrapWord(word))]

Disable(bp, m, ts) ==
    IF ~PeekOk(ts, bp.addr) THEN [fault |-> "peek", bp |-> bp, mem |-> m]
    ELSE LET word == ReadWord(m, bp.addr)
         IN  IF ~PokeOk(ts, bp.addr)
             THEN [fault |-> "poke", bp |-> bp, mem |-> m]
             ELSE [fault |-> "none",
                   bp    |-> [bp EXCEPT !.enabled = FALSE],
                   mem   |-> WriteWord(m, bp.addr,
                                       RestoredWord(word, bp.saved_byte))]

\* a toggle that enables whatever the state of the breakpoint
ToggleAlwaysEnables(bp, m, ts) == Enable(bp, m, ts)

ToggleBreakpoint(bp, m, ts) ==
    IF bp.enabled THEN Disable(bp, m, ts) ELSE Enable(bp, m, ts)

\* the struct literal of create_new_breakpoint, before enable() runs
NewBreakpoint(addr) == [addr |-> addr, saved_byte |-> 0, enabled |-> TRUE]

CreateNewBreakpoint(addr, m, ts) == Enable(NewBreakpoint(addr), m, ts)

----------------------------------------------------------------------------
(* struct Debugger: the command handlers.  A handler is an operator from   *)
(* the current state to the record of what it leaves.                      *)

UsageBreak == "USAGE: break [address in hex]"

UsageContinue == "USAGE: continue"

UsageQuit == "USAGE: quit"

UnknownCommand == "Unknown command"

PeekPanic == "Failed to peek data at address"

PokePanic == "Failed to poke data at address"

ContPanic == "Failed to resume execution of tracee"

\* the message of the unwrap on from_str_radix's result
ParsePanic == "unwrap on an Err value: ParseIntError"

\* the state a handler starts from; its prints start empty
Cur ==
    [dbg |-> dbg, exitStatus |-> exitStatus, tstate |-> tstate, mem |-> mem,
     breakpoints |-> breakpoints, report |-> "none", err |-> "none",
     killRes |-> killRes, ptraced |-> ptraced]

\* a failed expect or unwrap: the thread panics and the process ends with 101
Panic(s, msg) == [s EXCEPT !.dbg = "panic", !.exitStatus = 101, !.err = msg]

FaultPanic(fault) == IF fault = "peek" THEN PeekPanic ELSE PokePanic

\* a lookup that reports only an entry that is enabled
LookupEnabledOnly(table, addr) ==
    IF addr \in DOMAIN table /\ table[addr].enabled
    THEN "Breakpoint exists" ELSE "Nothing"

\* self.breakpoints.get(&addr_ptr): what is printed about the lookup
Lookup(table, addr) ==
    IF addr \in DOMAIN table THEN "Breakpoint exists" ELSE "Nothing"

\* a table update that reports a failed memory access and returns
EntryToggleOrInsertRecovers(s, addr) ==
    IF addr \in DOMAIN s.breakpoints
    THEN LET t == ToggleBreakpoint(s.breakpoints[addr], s.mem, s.tstate)
         IN  IF t.fault # "none"
             THEN [s EXCEPT !.err = FaultPanic(t.fault)]
             ELSE [s EXCEPT !.breakpoints = [s.breakpoints EXCEPT ![addr] = t.bp],
                            !.mem = t.mem]
    ELSE LET c == CreateNewBreakpoint(addr, s.mem, s.tstate)
         IN  IF c.fault # "none"
             THEN [s EXCEPT !.err = FaultPanic(c.fault)]
             ELSE [s EXCEPT !.breakpoints = (addr :> c.bp) @@ s.breakpoints,
                            !.mem = c.mem]

\* a table that drops the entry of a breakpoint it disables
EntryToggleRemovesOnDisable(s, addr) ==
    IF addr \in DOMAIN s.breakpoints
    THEN LET t == ToggleBreakpoint(s.breakpoints[addr], s.mem, s.tstate)
             table == [s.breakpoints EXCEPT ![addr] = t.bp]
         IN  IF t.fault # "none"
             THEN Panic([s EXCEPT !.breakpoints = table], FaultPanic(t.fault))
             ELSE IF t.bp.enabled
             THEN [s EXCEPT !.breakpoints = table, !.mem = t.mem]
             ELSE [s EXCEPT !.breakpoints =
                                [x \in DOMAIN table \ {addr} |-> table[x]],
                            !.mem = t.mem]
    ELSE LET c == CreateNewBreakpoint(addr, s.mem, s.tstate)
         IN  IF c.fault # "none"
             THEN Panic(s, FaultPanic(c.fault))
             ELSE [s EXCEPT !.breakpoints = (addr :> c.bp) @@ s.breakpoints,
                            !.mem = c.mem]

\* self.breakpoints.entry(addr_ptr).and_modify(toggle).or_insert_with(create)
EntryToggleOrInsert(s, addr) ==
    IF addr \in DOMAIN s.breakpoints
    THEN LET t == ToggleBreakpoint(s.breakpoints[addr], s.mem, s.tstate)
             table == [s.breakpoints EXCEPT ![addr] = t.bp]
         IN  IF t.fault # "none"
             THEN Panic([s EXCEPT !.breakpoints = table], FaultPanic(t.fault))
             ELSE [s EXCEPT !.breakpoints = table, !.mem = t.mem]
    ELSE LET c == CreateNewBreakpoint(addr, s.mem, s.tstate)
         IN  IF c.fault # "none"
             THEN Panic(s, FaultPanic(c.fault))
             ELSE [s EXCEPT !.breakpoints = (addr :> c.bp) @@ s.breakpoints,
                            !.mem = c.mem]

\* both arms of the entry call start with the ptrace::read of enable() or
\* disable(), so a ptrace request is issued once the token has parsed
HandleBreakpoint(s, tok) ==
    LET p == ParseAddr(tok)
    IN  IF ~p.ok THEN Panic(s, ParsePanic)
        ELSE EntryToggleOrInsert(
                 [s EXCEPT !.report = Lookup(s.breakpoints, p.val),
                           !.ptraced = TRUE], p.val)

\* ptrace::cont(..).expect(..); the waitpid that follows is ContinueWaitpid
\* a continue that takes the traps of the enabled breakpoints out of memory
\* before it resumes the tracee
ContinueTraceeRestoresBytes(s) ==
    IF s.tstate # "stopped" THEN Panic([s EXCEPT !.ptraced = TRUE], ContPanic)
    ELSE [s EXCEPT !.tstate = "running", !.dbg = "cont_wait",
                   !.ptraced = TRUE,
                   !.mem = [x \in DOMAIN s.mem |->
                               IF /\ x \in DOMAIN s.breakpoints
                                  /\ s.breakpoints[x].enabled
                               THEN s.breakpoints[x].saved_byte
                               ELSE s.mem[x]]]

ContinueTracee(s) ==
    IF s.tstate # "stopped" THEN Panic([s EXCEPT !.ptraced = TRUE], ContPanic)
    ELSE [s EXCEPT !.tstate = "running", !.dbg = "cont_wait",
                   !.ptraced = TRUE]

\* kill(tracee_pid, SIGINT) fails when the child is gone; either result is
\* ignored and exit(0) follows
KillResult(ts) == IF ts \in {"reaped", "none"} THEN "err" ELSE "ok"

\* a quit that unwraps the result of kill
QuitUnwrapsKill(s) ==
    IF KillResult(s.tstate) = "err"
    THEN Panic([s EXCEPT !.killRes = "err"], "unwrap on an Err value: ESRCH")
    ELSE [s EXCEPT !.killRes = "ok", !.dbg = "exited", !.exitStatus = 0]

Quit(s) ==
    [s EXCEPT !.killRes = KillResult(s.tstate), !.dbg = "exited",
              !.exitStatus = 0]

\* a dispatcher that does not look at the token count of continue
HandleCommandContinueAnyArity(s, line) ==
    CASE line.word = "break" ->
           IF Len(line.args) = 1 THEN HandleBreakpoint(s, line.args[1])
           ELSE [s EXCEPT !.err = UsageBreak]
      [] line.word = "continue" -> ContinueTracee(s)
      [] line.word \in {"exit", "quit"} ->
           IF Len(line.args) = 0 THEN Quit(s)
           ELSE [s EXCEPT !.err = UsageQuit]
      [] OTHER -> [s EXCEPT !.err = UnknownCommand]

\* a line is given as command.split leaves it: command[0] is line.word,
\* the further tokens are line.args, command.len() is 1 + Len(line.args)
HandleCommand(s, line) ==
    CASE line.word = "break" ->
           IF Len(line.args) = 1 THEN HandleBreakpoint(s, line.args[1])
           ELSE [s EXCEPT !.err = UsageBreak]
      [] line.word = "continue" ->
           IF Len(line.args) = 0 THEN ContinueTracee(s)
           ELSE [s EXCEPT !.err = UsageContinue]
      [] line.word \in {"exit", "quit"} ->
           IF Len(line.args) = 0 THEN Quit(s)
           ELSE [s EXCEPT !.err = UsageQuit]
      [] OTHER -> [s EXCEPT !.err = UnknownCommand]

----------------------------------------------------------------------------
(* What the user may type *)

CmdWords == {"break", "continue", "exit", "quit", "foobar", ""}

TokChars == {"0", "1", "2", "x", "+"}

Bodies == UNION { [1..k -> TokChars] : k \in 0..MaxDigits }

Prefix0x == <<"0", "x">>

Tokens == Bodies \cup { Prefix0x \o b : b \in Bodies }

ShortTokens == { t \in Bodies : Len(t) <= 1 }

\* after any command word: no token, one short token, or two
ShortArgLists ==
    {<< >>} \cup { <<t>> : t \in ShortTokens } \cup { <<t, t>> : t \in ShortTokens }

\* after break, also every token
Lines ==
    { [word |-> w, args |-> a] : w \in CmdWords, a \in ShortArgLists }
    \cup { [word |-> "break", args |-> <<t>>] : t \in Tokens }

\* the command table of the interface, independent of the handlers: a hex
\* address is one or more hex digits after an optional 0x
IsHexString(s) == Len(s) >= 1 /\ \A i \in 1..Len(s) : HexDigit(s[i]) >= 0

IsAddressToken(tok) ==
    \/ IsHexString(tok)
    \/ HasPrefix0x(tok) /\ IsHexString(SubSeq(tok, 3, Len(tok)))

DispatcherRejects(line) ==
    \/ line.word = "break" /\ Len(line.args) # 1
    \/ line.word \in {"continue", "exit", "quit"} /\ Len(line.args) # 0
    \/ line.word \notin {"break", "continue", "exit", "quit"}

WellFormed(line) ==
    /\ ~DispatcherRejects(line)
    /\ line.word = "break" => IsAddressToken(line.args[1])

CommandKind(line) ==
    IF DispatcherRejects(line) THEN "rejected"
    ELSE IF line.word = "break" THEN "break"
    ELSE IF line.word = "continue" THEN "continue"
    ELSE "quit"

\* the address a break line resolves to, -1 when it resolves to none
LineKey(line) ==
    IF CommandKind(line) = "break" /\ ParseAddr(line.args[1]).ok
    THEN ParseAddr(line.args[1]).val
    ELSE -1

\* what the operating system answers a break command's ptrace calls with:
\* "peek" when the read fails, "poke" when the read succeeds and the write
\* fails, "none" when both succeed or the line resolves to no address
LineFault(line, ts) ==
    IF LineKey(line) < 0 THEN "none"
    ELSE IF ~PeekOk(ts, LineKey(line)) THEN "peek"
    ELSE IF ~PokeOk(ts, LineKey(line)) THEN "poke"
    ELSE "none"

\* the record kept of a line; the key and the spelling are kept of a break
\* command that returned to the prompt
Classify(line, ts, returned) ==
    [cmd      |-> CommandKind(line),
     wf       |-> WellFormed(line),
     fault    |-> LineFault(line, ts),
     key      |-> IF returned THEN LineKey(line) ELSE -1,
     prefixed |-> returned /\ HasPrefix0x(line.args[1])]

Count(a) == IF a \in DOMAIN nBreak THEN nBreak[a] ELSE 0

----------------------------------------------------------------------------
(* The state machine *)

EmptyTable == [a \in {} |-> 0]

Init ==
    /\ dbg = "main"
    /\ exitStatus = -1
    /\ tstate = "none"
    /\ rip = 0
    /\ mem = NoImage
    /\ breakpoints = EmptyTable
    /\ report = "none"
    /\ err = "none"
    /\ killRes = "none"
    /\ ptraced = FALSE
    /\ initStatus = "none"
    /\ childLog = << >>
    /\ mem0 = NoImage
    /\ executed = {}
    /\ resumedAt = 0
    /\ nBreak = EmptyTable
    /\ last = [cmd |-> "none", wf |-> TRUE, fault |-> "none", key |-> -1,
               prefixed |-> FALSE]

history == <<mem0, executed, resumedAt, nBreak, last>>

\* main, no program named: the usage line is printed and main returns
MainUsage ==
    /\ dbg = "main"
    /\ dbg' = "exited"
    /\ exitStatus' = 0
    /\ report' = "USAGE: rustdbg [prog]"
    /\ UNCHANGED <<tstate, rip, mem, breakpoints, err, killRes, ptraced,
                   initStatus, childLog, history>>

\* main, fork returns Err: the message is printed and main returns
MainForkFail ==
    /\ dbg = "main"
    /\ dbg' = "exited"
    /\ exitStatus' = 0
    /\ report' = "Error forking process"
    /\ UNCHANGED <<tstate, rip, mem, breakpoints, err, killRes, ptraced,
                   initStatus, childLog, history>>

\* main, fork returns the child's pid: the Debugger is built and run() starts
MainFork ==
    /\ dbg = "main"
    /\ dbg' = "run_wait"
    /\ tstate' = "forked"
    /\ UNCHANGED <<exitStatus, rip, mem, breakpoints, report, err, killRes,
                   ptraced, initStatus, childLog, history>>

\* the child: disable_aslr(); an unwrap that fails ends the child
ChildDisableAslr ==
    /\ tstate = "forked"
    /\ \E ok \in BOOLEAN :
          /\ tstate' = IF ok THEN "aslr_off" ELSE "zombie"
          /\ childLog' = Append(childLog, [call |-> "personality", ok |-> ok])
    /\ UNCHANGED <<dbg, exitStatus, rip, mem, breakpoints, report, err,
                   killRes, ptraced, initStatus, history>>

\* the child: ptrace::traceme().expect(..)
\* a child that goes on to execvp although traceme failed
ChildTracemeIgnoresFailure ==
    /\ tstate = "aslr_off"
    /\ \E ok \in BOOLEAN :
          /\ tstate' = "traceme"
          /\ childLog' = Append(childLog, [call |-> "traceme", ok |-> ok])
    /\ UNCHANGED <<dbg, exitStatus, rip, mem, breakpoints, report, err,
                   killRes, ptraced, initStatus, history>>

ChildTraceme ==
    /\ tstate = "aslr_off"
    /\ \E ok \in BOOLEAN :
          /\ tstate' = IF ok THEN "traceme" ELSE "zombie"
          /\ childLog' = Append(childLog, [call |-> "traceme", ok |-> ok])
    /\ UNCHANGED <<dbg, exitStatus, rip, mem, breakpoints, report, err,
                   killRes, ptraced, initStatus, history>>

\* the child: execvp(..).expect(..); a traced exec stops at the entry point
ChildExec ==
    /\ tstate = "traceme"
    /\ \/ \E img \in Images :
             /\ tstate' = "stopped"
             /\ mem' = img
             /\ mem0' = img
             /\ rip' = Entry
             /\ childLog' = Append(childLog, [call |-> "execvp", ok |-> TRUE])
       \/ /\ tstate' = "zombie"
          /\ childLog' = Append(childLog, [call |-> "execvp", ok |-> FALSE])
          /\ UNCHANGED <<mem, mem0, rip>>
    /\ UNCHANGED <<dbg, exitStatus, breakpoints, report, err, killRes,
                   ptraced, initStatus, executed, resumedAt, nBreak, last>>

\* waitpid(tracee_pid, None) returns once the child has stopped or ended, and
\* reaps a child that ended
WaitReady(ts) == ts \in {"stopped", "zombie"}

WaitPid(ts) == IF ts = "zombie" THEN "reaped" ELSE ts

\* the WaitStatus waitpid returns; run() unwraps the Result and drops it
WaitStatus(ts) == IF ts = "zombie" THEN "exited" ELSE "stopped"

\* run(): the waitpid before the command loop
RunWaitpid ==
    /\ dbg = "run_wait"
    /\ WaitReady(tstate)
    /\ tstate' = WaitPid(tstate)
    /\ initStatus' = WaitStatus(tstate)
    /\ dbg' = "prompt"
    /\ UNCHANGED <<exitStatus, rip, mem, breakpoints, report, err, killRes,
                   ptraced, childLog, history>>

\* run(): one turn of the loop, linenoise::input and handle_command
Command ==
    /\ dbg = "prompt"
    /\ \E line \in Lines :
          /\ LineKey(line) >= 0 => Count(LineKey(line)) < MaxBreaks
          /\ LET r == HandleCommand(Cur, line)
                 k == LineKey(line)
                 returned == k >= 0 /\ r.dbg = "prompt"
             IN  /\ dbg' = r.dbg
                 /\ exitStatus' = r.exitStatus
                 /\ tstate' = r.tstate
                 /\ mem' = r.mem
                 /\ breakpoints' = r.breakpoints
                 /\ report' = r.report
                 /\ err' = r.err
                 /\ killRes' = r.killRes
                 /\ ptraced' = r.ptraced
                 /\ last' = Classify(line, tstate, returned)
                 /\ nBreak' = IF returned
                              THEN (k :> (Count(k) + 1)) @@ nBreak
                              ELSE nBreak
                 /\ resumedAt' = IF r.dbg = "cont_wait" THEN rip ELSE resumedAt
    /\ UNCHANGED <<rip, initStatus, childLog, mem0, executed>>

\* the resumed tracee runs one instruction: the byte 0xcc traps (SIGTRAP, rip
\* past the byte), any other byte is executed, and past its last instruction
\* the program exits
TraceeStep ==
    /\ tstate = "running"
    /\ IF rip \notin CodeAddrs
       THEN tstate' = "zombie" /\ UNCHANGED <<rip, executed>>
       ELSE IF mem[rip] = INT3
       THEN tstate' = "stopped" /\ rip' = rip + 1 /\ UNCHANGED executed
       ELSE /\ rip' = rip + 1
            /\ executed' = executed \cup {rip}
            /\ UNCHANGED tstate
    /\ UNCHANGED <<dbg, exitStatus, mem, breakpoints, report, err, killRes,
                   ptraced, initStatus, childLog, mem0, resumedAt, nBreak,
                   last>>

\* continue_tracee(): the waitpid after ptrace::cont returns
ContinueWaitpid ==
    /\ dbg = "cont_wait"
    /\ WaitReady(tstate)
    /\ tstate' = WaitPid(tstate)
    /\ dbg' = "prompt"
    /\ UNCHANGED <<exitStatus, rip, mem, breakpoints, report, err, killRes,
                   ptraced, initStatus, childLog, history>>

Next ==
    \/ MainUsage
    \/ MainForkFail
    \/ MainFork
    \/ ChildDisableAslr
    \/ ChildTraceme
    \/ ChildExec
    \/ RunWaitpid
    \/ Command
    \/ TraceeStep
    \/ ContinueWaitpid

Spec == Init /\ [][Next]_vars

----------------------------------------------------------------------------
(* Properties *)

Enabled(a) == a \in DOMAIN breakpoints /\ breakpoints[a].enabled

Disabled(a) == a \in DOMAIN breakpoints /\ ~breakpoints[a].enabled

\* C1: every breakpoint of the table that is enabled has the trap opcode at
\* its address and holds in saved_byte the byte exec left there; every one
\* that is disabled has its saved_byte at its address.
C1_BreakpointInvariant ==
    \A a \in DOMAIN breakpoints :
        IF breakpoints[a].enabled
        THEN mem[a] = INT3 /\ breakpoints[a].saved_byte = mem0[a]
        ELSE mem[a] = breakpoints[a].saved_byte

\* C1: one breakpoint enabled and another disabled, after a continue that
\* returned
C1_Witness ==
    /\ dbg = "prompt"
    /\ last.cmd = "continue"
    /\ \E a, b \in DOMAIN breakpoints :
          /\ Enabled(a) /\ mem0[a] # INT3
          /\ Disabled(b) /\ mem0[b] # INT3

\* enable() of a fresh breakpoint at a on memory m, then disable(): when the
\* enable succeeds the disable does, and the memory is m again
RoundTrip(m, a) ==
    LET e == Enable(NewBreakpoint(a), m, "stopped")
        d == Disable(e.bp, e.mem, "stopped")
    IN  e.fault = "none" => d.fault = "none" /\ d.mem = m

\* an image with byte b at address a
WithByte(a, b) ==
    [x \in MappedAddrs |-> IF x = a THEN b ELSE RestByte(x)]

\* the round trip at the two addresses that can be patched, for every value
\* 0..255 of the byte there
RoundTripAllBytes ==
    \A b \in Byte : \A a \in {TextBase, TextBase + 1} :
        RoundTrip(WithByte(a, b), a)

\* C2: enable() followed by disable() leaves the whole memory as it was, at
\* every address of the memory the session has reached, and at every address
\* that can be patched for every value 0..255 of the byte there.
C2_RoundTrip ==
    tstate = "stopped" =>
        /\ \A a \in MappedAddrs : RoundTrip(mem, a)
        /\ RoundTripAllBytes

\* C2: a breakpoint on a byte that already was 0xcc, enabled and disabled
\* again, with the memory as exec left it
C2_Witness ==
    \E a \in DOMAIN breakpoints :
        /\ mem0[a] = INT3
        /\ Count(a) = 2
        /\ Disabled(a)
        /\ mem = mem0

IsOdd(n) == n % 2 = 1

\* C3: an address has an entry iff a break command returned for it; after k
\* such commands the entry is enabled with the trap opcode at the address
\* when k is odd, and disabled with the original byte there when k is even;
\* when every k is even the memory is as exec left it.
C3_ToggleParity ==
    /\ DOMAIN breakpoints = DOMAIN nBreak
    /\ \A a \in DOMAIN nBreak :
          /\ nBreak[a] >= 1
          /\ IsOdd(nBreak[a]) => Enabled(a) /\ mem[a] = INT3
          /\ ~IsOdd(nBreak[a]) => Disabled(a) /\ mem[a] = mem0[a]
    /\ (\A a \in DOMAIN nBreak : ~IsOdd(nBreak[a])) => mem = mem0

\* C3: three break commands on one address (on again), two on another (off)
C3_Witness ==
    \E a, b \in DOMAIN breakpoints :
        /\ Count(a) = 3 /\ Enabled(a) /\ mem0[a] # INT3
        /\ Count(b) = 2 /\ Disabled(b) /\ mem0[b] # INT3

Diagnostics == {UsageBreak, UsageContinue, UsageQuit, UnknownCommand}

\* C4: after a line that is not a well-formed command the error is reported
\* and the loop is at the prompt again.
C4_MalformedNeverAborts ==
    (last.cmd # "none" /\ ~last.wf) => (dbg = "prompt" /\ err # "none")

\* C5: a turn of the loop on a line the dispatcher rejects prints a usage or
\* unknown-command diagnostic and changes neither the breakpoint table, nor
\* the tracee's memory, nor its run state, nor the debugger's.
C5_RejectedLeavesState ==
    [][(dbg = "prompt" /\ last'.cmd = "rejected") =>
          /\ breakpoints' = breakpoints
          /\ mem' = mem
          /\ tstate' = tstate
          /\ rip' = rip
          /\ dbg' = "prompt"
          /\ exitStatus' = exitStatus
          /\ err' \in Diagnostics]_vars

\* C5: a rejected line read while a breakpoint is installed and the tracee
\* is stopped at it
C5_Witness ==
    /\ last.cmd = "rejected"
    /\ err = UsageContinue
    /\ tstate = "stopped"
    /\ \E a \in DOMAIN breakpoints : Enabled(a) /\ rip = a + 1

\* C6: when continue returns and a breakpoint is enabled at an address A of
\* the program that lay ahead of the tracee with no trap before it, the
\* tracee is stopped with rip just past the trap at A and has executed
\* neither the instruction at A nor a later one; and after quit the tool has
\* ended with status 0.
C6_Lifecycle ==
    /\ \A a \in DOMAIN breakpoints :
          ( /\ dbg = "prompt"
            /\ last.cmd = "continue"
            /\ breakpoints[a].enabled
            /\ a \in CodeAddrs
            /\ resumedAt <= a
            /\ \A b \in resumedAt..(a - 1) : mem[b] # INT3 )
          => ( /\ tstate = "stopped"
               /\ rip = a + 1
               /\ \A x \in executed : x < a )
    /\ last.cmd = "quit" => (dbg = "exited" /\ exitStatus = 0)

\* C6: break at the entry point, continue, quit: the tool ended with 0 and
\* the tracee stopped at the trap having executed nothing
C6_Witness ==
    /\ last.cmd = "quit"
    /\ exitStatus = 0
    /\ Enabled(Entry)
    /\ Count(Entry) = 1
    /\ mem0[Entry] # INT3
    /\ resumedAt = Entry
    /\ tstate = "stopped"
    /\ rip = Entry + 1
    /\ executed = {}

\* C7: after quit the tool has ended with status 0, whatever the state of
\* the tracee was; the kill was sent, and it failed exactly when the child
\* was gone.
C7_QuitExitsZero ==
    last.cmd = "quit" =>
        /\ dbg = "exited"
        /\ exitStatus = 0
        /\ killRes = IF tstate = "reaped" THEN "err" ELSE "ok"

\* C7: quit after the tracee ran to its end and was reaped, with a
\* breakpoint in the table: the kill failed and the status is 0
C7_Witness ==
    /\ last.cmd = "quit"
    /\ tstate = "reaped"
    /\ killRes = "err"
    /\ exitStatus = 0
    /\ breakpoints # EmptyTable

\* C8: a break command that returned reported "Nothing" when it was the
\* first for its address and "Breakpoint exists" when it was a later one.
C8_ExistenceReporting ==
    (last.cmd = "break" /\ last.key >= 0) =>
        report = IF Count(last.key) = 1 THEN "Nothing" ELSE "Breakpoint exists"

\* C8: the third break on an address, whose entry was disabled before it
C8_Witness ==
    /\ last.cmd = "break"
    /\ last.key >= 0
    /\ Count(last.key) = 3
    /\ Enabled(last.key)
    /\ report = "Breakpoint exists"

HexBodies == { h \in Bodies : IsHexString(h) }

\* C9: at the prompt, for every string h of hex digits, break 0x<h> and
\* break <h> resolve to the same key and leave the same table, memory,
\* prints and debugger state.
C9_AddressNormalization ==
    dbg = "prompt" =>
        \A h \in HexBodies :
            /\ ParseAddr(Prefix0x \o h) = ParseAddr(h)
            /\ HandleBreakpoint(Cur, Prefix0x \o h) = HandleBreakpoint(Cur, h)

\* C9: the entry at 0x10 was created by a token with the prefix, and the
\* token 10 toggles that entry off
C9_Witness ==
    /\ dbg = "prompt"
    /\ last.cmd = "break"
    /\ last.prefixed
    /\ last.key = TextBase
    /\ Count(TextBase) = 1
    /\ Enabled(TextBase)
    /\ LET r == HandleBreakpoint(Cur, <<"1", "0">>)
       IN  /\ r.report = "Breakpoint exists"
           /\ DOMAIN r.breakpoints = DOMAIN breakpoints
           /\ ~r.breakpoints[TextBase].enabled

\* C10: when a ptrace read or write of a break command fails, the tool has
\* panicked with the message of that access and status 101, and no step
\* follows: no further command is read and the table is left as it is.
C10_MemoryFailureFatal ==
    last.fault # "none" =>
        /\ dbg = "panic"
        /\ exitStatus = 101
        /\ err = FaultPanic(last.fault)
        /\ ~ENABLED Next

\* C10: the read succeeded and the write failed
C10_Witness ==
    /\ last.fault = "poke"
    /\ dbg = "panic"
    /\ err = PokePanic

\* C11: the debugger has issued a ptrace request only after the waitpid of
\* run() returned the trace-stop of the child's exec.
C11_NoTraceBeforeInitialStop ==
    ptraced => initStatus = "stopped"

\* the calls of the Child arm of main, in program order
ChildOrder == <<"personality", "traceme", "execvp">>

\* C12: the child calls personality, then traceme, then execvp, each only
\* after the one before succeeded; a failed call ends the child (it is a
\* zombie or reaped and no image was loaded), so execvp is never called
\* without a successful traceme; the session exists in the parent before the
\* child's first call and the child has no position in the command loop.
C12_ChildLaunchOrder ==
    /\ Len(childLog) <= Len(ChildOrder)
    /\ \A i \in 1..Len(childLog) :
          /\ childLog[i].call = ChildOrder[i]
          /\ i < Len(childLog) => childLog[i].ok
    /\ (\E i \in 1..Len(childLog) : ~childLog[i].ok) =>
          /\ tstate \in {"zombie", "reaped"}
          /\ mem = NoImage
    /\ (\E i \in 1..Len(childLog) :
            childLog[i] = [call |-> "execvp", ok |-> TRUE]) =>
          /\ mem0 \in Images
          /\ tstate \notin {"forked", "aslr_off", "traceme"}
    /\ childLog # << >> => dbg # "main"
    /\ tstate \in {"forked", "aslr_off", "traceme"} =>
          /\ breakpoints = EmptyTable
          /\ last.cmd = "none"

C12_Witness ==
    /\ Len(childLog) = 3
    /\ childLog[2] = [call |-> "traceme", ok |-> TRUE]
    /\ childLog[3] = [call |-> "execvp", ok |-> FALSE]
    /\ tstate = "reaped"
    /\ dbg = "prompt"

\* C13: when fork fails the tool ends with a failure status, and no session
\* was constructed and no command was accepted.
C13_ForkFailureFatal ==
    report = "Error forking process" =>
        /\ dbg \in {"exited", "panic"}
        /\ exitStatus > 0
        /\ tstate = "none"
        /\ breakpoints = EmptyTable
        /\ last.cmd = "none"

\* C14: a breakpoint's saved_byte is the byte resident at its address when
\* it was created and no later step changes it; a step in which enable()
\* ran on an existing breakpoint started with that breakpoint disabled and
\* its own saved byte, not its trap, resident at the address.
C14_SavedByteStable ==
    [][\A a \in DOMAIN breakpoints' :
          /\ a \notin DOMAIN breakpoints =>
                breakpoints'[a].saved_byte = mem[a]
          /\ a \in DOMAIN breakpoints =>
                /\ breakpoints'[a].saved_byte = breakpoints[a].saved_byte
                /\ (nBreak'[a] # nBreak[a] /\ breakpoints'[a].enabled) =>
                      /\ ~breakpoints[a].enabled
                      /\ mem[a] = breakpoints[a].saved_byte]_vars

C14_Witness ==
    /\ dbg = "prompt"
    /\ last.cmd = "continue"
    /\ \E a \in DOMAIN breakpoints :
          /\ Count(a) = 3
          /\ breakpoints[a].enabled
          /\ breakpoints[a].saved_byte = mem0[a]
          /\ mem0[a] # INT3
          /\ mem[a] = INT3

\* the words that have byte b at position i, over a fixed pattern elsewhere
ProbeWord(i, b, lo) ==
    [k \in 1..WordBytes |-> IF k = i THEN b ELSE IF k = 1 THEN lo ELSE 165]

\* for every value of every upper byte of the word read (top bit set
\* included) the word enable() or disable() writes keeps that byte
UpperBytesKept ==
    \A i \in 2..WordBytes : \A b \in Byte : \A lo \in {0, 127, 128, INT3, 255} :
        LET w == ProbeWord(i, b, lo)
        IN  /\ \A k \in 2..WordBytes : TrapWord(w)[k] = w[k]
            /\ \A k \in 2..WordBytes : RestoredWord(w, lo)[k] = w[k]
            /\ TrapWord(w)[1] = INT3
            /\ RestoredWord(w, lo)[1] = lo

\* C15: enable() and disable() write back the word they read with only its
\* low byte replaced, so in every state of a stopped inferior and for every
\* patchable address they leave every byte of memory other than the one at
\* the breakpoint's address as it was.
C15_LowByteOnly ==
    tstate = "stopped" =>
        /\ UpperBytesKept
        /\ \A a \in MappedAddrs : PokeOk(tstate, a) =>
              \A sb \in {mem0[a], 0, INT3} :
                 LET e == Enable(NewBreakpoint(a), mem, tstate)
                     d == Disable([addr |-> a, saved_byte |-> sb,
                                   enabled |-> TRUE], mem, tstate)
                 IN  /\ e.fault = "none" /\ d.fault = "none"
                     /\ e.mem[a] = INT3 /\ d.mem[a] = sb
                     /\ \A x \in DOMAIN mem \ {a} :
                           e.mem[x] = mem[x] /\ d.mem[x] = mem[x]

C15_Witness ==
    /\ Enabled(TextBase)
    /\ Disabled(TextBase + 1)
    /\ mem[TextBase + WordBytes - 1] >= 128
    /\ mem[TextBase] = INT3
    /\ mem0[TextBase] # INT3
    /\ \A x \in DOMAIN mem \ {TextBase} : mem[x] = mem0[x]

\* C16: a continue command, from the turn that takes it to the return of
\* its waitpid, writes no byte of memory and changes no breakpoint; the
\* tracee is resumed where it stopped, with the trap of every enabled
\* breakpoint in memory.
C16_ContinueFrame ==
    [][( \/ dbg = "prompt" /\ last'.cmd = "continue"
         \/ dbg = "cont_wait" )
       => /\ mem' = mem
          /\ breakpoints' = breakpoints
          /\ nBreak' = nBreak
          /\ (dbg = "prompt" /\ tstate' = "running") =>
                /\ resumedAt' = rip
                /\ rip' = rip
                /\ \A a \in DOMAIN breakpoints' :
                      breakpoints'[a].enabled => mem'[a] = INT3]_vars

\* a continue issued while the tracee was stopped at the trap of an enabled
\* breakpoint has returned: the trap is still there and the instruction it
\* replaced was never executed
C16_Witness ==
    /\ dbg = "prompt"
    /\ last.cmd = "continue"
    /\ \E a \in DOMAIN breakpoints :
          /\ breakpoints[a].enabled
          /\ resumedAt = a + 1
          /\ mem[a] = INT3
          /\ mem0[a] # INT3
          /\ a \notin executed

\* the command loop takes a command only with the tracee stopped or gone,
\* and waits in continue_tracee only for a tracee that was resumed
PromptNeverRunning ==
    /\ dbg = "prompt" => tstate \in {"stopped", "reaped"}
    /\ dbg = "cont_wait" => tstate \in {"running", "stopped", "zombie"}

\* the tracee keeps running once resumed and waitpid returns once it has
\* stopped or exited
FairSpec == Spec /\ WF_vars(TraceeStep) /\ WF_vars(ContinueWaitpid)

\* a continue that has resumed the tracee returns to the prompt
ContinueReturns == (dbg = "cont_wait") ~> (dbg = "prompt")

\* C17: the tracee is stopped when the loop takes its first command; the
\* loop takes a command only with the tracee stopped or terminated, never
\* running; a continue returns only after the next stop or exit.
C17_RunStateMachine ==
    /\ (dbg = "prompt" /\ last.cmd = "none") => tstate = "stopped"
    /\ PromptNeverRunning

\* C18: no step removes a key of the table; after every step the keys are
\* the addresses of the break commands that returned so far, a new key is
\* the address of the break command of that step, and the entry under a key
\* is the breakpoint of that address, so an address has one entry.
C18_TableKeys ==
    [][/\ DOMAIN breakpoints \subseteq DOMAIN breakpoints'
       /\ DOMAIN breakpoints' = DOMAIN nBreak'
       /\ \A a \in DOMAIN breakpoints' : breakpoints'[a].addr = a
       /\ \A a \in DOMAIN breakpoints' \ DOMAIN breakpoints :
             /\ dbg = "prompt"
             /\ last'.cmd = "break"
             /\ last'.key = a
       /\ (dbg = "prompt" /\ last'.cmd = "break" /\ last'.key >= 0) =>
             last'.key \in DOMAIN breakpoints']_vars

C18_Witness ==
    /\ dbg = "prompt"
    /\ last.cmd = "continue"
    /\ Cardinality(DOMAIN breakpoints) = 2
    /\ \E a \in DOMAIN breakpoints :
          /\ ~breakpoints[a].enabled
          /\ Count(a) = 2

\* C19: a step of a break command for address A leaves the entry of every
\* other address B of the table, and the byte resident at B, as they were;
\* a break command that panicked leaves them so for every B.
C19_NoInterference ==
    [][(dbg = "prompt" /\ last'.cmd = "break") =>
          \A B \in DOMAIN breakpoints :
              B # last'.key =>
                  /\ B \in DOMAIN breakpoints'
                  /\ breakpoints'[B] = breakpoints[B]
                  /\ mem'[B] = mem[B]
                  /\ nBreak'[B] = nBreak[B]]_vars

\* the break that disabled the breakpoint at A wrote back the word that
\* holds the trap of the enabled breakpoint at A + 1
C19_Witness ==
    LET A == TextBase
        B == TextBase + 1
    IN  /\ dbg = "prompt"
        /\ last.cmd = "break"
        /\ last.key = A
        /\ B \in WordRange(A)
        /\ Count(A) = 2
        /\ Disabled(A)
        /\ Count(B) = 1
        /\ Enabled(B)
        /\ mem0[B] # INT3
        /\ mem[B] = INT3
        /\ breakpoints[B].saved_byte = mem0[B]

----------------------------------------------------------------------------
(* The register descriptor table.  It is a const item: no code of the      *)
(* program assigns to it, so it is a definition here and not a variable.   *)

REGISTER_COUNT == 27

\* enum Register
Register ==
    {"r15", "r14", "r13", "r12",
     "rbp", "rbx", "r11", "r10",
     "r9", "r8", "rax", "rcx",
     "rdx", "rsi", "rdi",
     "orig_rax", "rip", "cs",
     "eflags", "rsp", "ss",
     "fs_base", "gs_base",
     "ds", "es", "fs", "gs"}

\* the value of dwarf_reg_no of a register that has no DWARF number
NoDwarfNo == -1

\* struct RegDescriptor
RegDescriptor(reg, no, name) ==
    [reg |-> reg, dwarf_reg_no |-> no, reg_name |-> name]

\* the table with the DWARF number of es given to cs as well
REG_DWARF_MAP_CsAsEs ==
    <<
       RegDescriptor("r15", 15, "r15"),
       RegDescriptor("r14", 14, "r14"),
       RegDescriptor("r13", 13, "r13"),
       RegDescriptor("r12", 12, "r12"),
       RegDescriptor("rbp", 6, "rbp"),
       RegDescriptor("rbx", 3, "rbx"),
       RegDescriptor("r11", 11, "r11"),
       RegDescriptor("r10", 10, "r10"),
       RegDescriptor("r9", 9, "r9"),
       RegDescriptor("r8", 8, "r8"),
       RegDescriptor("rax", 0, "rax"),
       RegDescriptor("rcx", 2, "rcx"),
       RegDescriptor("rdx", 1, "rdx"),
       RegDescriptor("rsi", 4, "rsi"),
       RegDescriptor("rdi", 5, "rdi"),
       RegDescriptor("orig_rax", -1, "orig_rax"),
       RegDescriptor("rip", -1, "rip"),
       RegDescriptor("cs", 50, "cs"),
       RegDescriptor("eflags", -1, "eflags"),
       RegDescriptor("rsp", 7, "rsp"),
       RegDescriptor("ss", 52, "ss"),
       RegDescriptor("fs_base", 58, "fs_base"),
       RegDescriptor("gs_base", 59, "gs_base"),
       RegDescriptor("ds", 53, "ds"),
       RegDescriptor("es", 50, "es"),
       RegDescriptor("fs", 54, "fs"),
       RegDescriptor("gs", 55, "gs")
    >>

REG_DWARF_MAP ==
    <<
       RegDescriptor("r15", 15, "r15"),
       RegDescriptor("r14", 14, "r14"),
       RegDescriptor("r13", 13, "r13"),
       RegDescriptor("r12", 12, "r12"),
       RegDescriptor("rbp", 6, "rbp"),
       RegDescriptor("rbx", 3, "rbx"),
       RegDescriptor("r11", 11, "r11"),
       RegDescriptor("r10", 10, "r10"),
       RegDescriptor("r9", 9, "r9"),
       RegDescriptor("r8", 8, "r8"),
       RegDescriptor("rax", 0, "rax"),
       RegDescriptor("rcx", 2, "rcx"),
       RegDescriptor("rdx", 1, "rdx"),
       RegDescriptor("rsi", 4, "rsi"),
       RegDescriptor("rdi", 5, "rdi"),
       RegDescriptor("orig_rax", -1, "orig_rax"),
       RegDescriptor("rip", -1, "rip"),
       RegDescriptor("cs", 51, "cs"),
       RegDescriptor("eflags", -1, "eflags"),
       RegDescriptor("rsp", 7, "rsp"),
       RegDescriptor("ss", 52, "ss"),
       RegDescriptor("fs_base", 58, "fs_base"),
       RegDescriptor("gs_base", 59, "gs_base"),
       RegDescriptor("ds", 53, "ds"),
       RegDescriptor("es", 50, "es"),
       RegDescriptor("fs", 54, "fs"),
       RegDescriptor("gs", 55, "gs")
    >>

\* the descriptors found by identity and by DWARF number
ByRegister(r) ==
    {i \in 1..Len(REG_DWARF_MAP) : REG_DWARF_MAP[i].reg = r}

ByDwarfNo(n) ==
    {i \in 1..Len(REG_DWARF_MAP) : REG_DWARF_MAP[i].dwarf_reg_no = n}

\* C20: the table has REGISTER_COUNT = 27 descriptors, every register of
\* the enum has exactly one of them, and no DWARF number other than -1 is
\* that of two descriptors, so a lookup by register or by DWARF number finds
\* at most one descriptor, in every state after main has started.
C20_RegisterTable ==
    dbg # "main" =>
        /\ Len(REG_DWARF_MAP) = REGISTER_COUNT
        /\ Cardinality(Register) = REGISTER_COUNT
        /\ \A r \in Register : Cardinality(ByRegister(r)) = 1
        /\ \A i \in 1..Len(REG_DWARF_MAP) :
              /\ REG_DWARF_MAP[i].reg \in Register
              /\ REG_DWARF_MAP[i].reg_name = REG_DWARF_MAP[i].reg
              /\ LET n == REG_DWARF_MAP[i].dwarf_reg_no
                 IN  n # NoDwarfNo => ByDwarfNo(n) = {i}

\* in a session that has taken break and continue commands, rsp is found
\* under its DWARF number 7, rip has one descriptor and no DWARF number
C20_Witness ==
    /\ dbg = "prompt"
    /\ last.cmd = "continue"
    /\ breakpoints # EmptyTable
    /\ \E i \in ByDwarfNo(7) : REG_DWARF_MAP[i].reg = "rsp"
    /\ Cardinality(ByRegister("rip")) = 1
    /\ \A i \in ByRegister("rip") : REG_DWARF_MAP[i].dwarf_reg_no = NoDwarfNo
    /\ Cardinality(ByDwarfNo(NoDwarfNo)) = 3

====
